---- MODULE Spec2Model ----
(***************************************************************************)
(* Model of the image-yinyang public worker (src/src/index.js, lines       *)
(* 1-297): the POST handler (input deduplication, vision call with retry,  *)
(* sentence scoring, ledger write, queue handoff) and the GET polling      *)
(* handler.  Every await on a collaborator is one atomic step; a           *)
(* collaborator's answer is drawn from the outcomes its interface allows.  *)
(***************************************************************************)
EXTENDS Integers, Sequences, FiniteSets, TLC

(* ---------------------------- bounds ---------------------------------- *)

\* number of POST requests that may be in flight together
NSubs == 2
\* the ghost counter of vision invocations saturates here
MaxVisionCalls == 4

(* ----------------------- program constants ---------------------------- *)

\* let retries = 3
MaxRetries == 3

\* the k-th POST request to arrive is submission k; nanoid gives it a fresh id
Subs == 1..NSubs
\* request identifiers: those of the submissions, and one (0) whose record
\* was completed in the ledger by the queue's consumer before this run
Ids == 0..NSubs
\* what a GET may carry in its path: an identifier, or nothing ("/")
EmptyPath == 0 - 1
Paths == Ids \cup {EmptyPath}

(* ------------------------------ URLs ---------------------------------- *)
\* A URL is the tuple of its origin and its path segments; the empty tuple is
\* a body that `new URL` rejects.

OwnOrigin == "https://inputs.yinyang.computerpho.be"
ExtOrigin == "https://example.org"
InvalidUrl == <<>>
OwnUrl == <<OwnOrigin, "old", "png">>
\* two sources: one never seen before, one whose image was persisted (as
\* "old.png") before this run
NewUrl == <<ExtOrigin, "a">>
SeenUrl == <<ExtOrigin, "b">>
Bodies == {NewUrl, SeenUrl, OwnUrl, InvalidUrl}

Origin(url) == url[1]

\* `${nanoid()}.${cType.split('/').slice(-1)[0]}`: content types are tuples of
\* their '/'-separated parts
ContentTypes == {<<"image", "png">>}
NoCType == <<>>
Last(seq) == seq[Len(seq)]
BucketIdFor(s, cType) == <<ToString(s), Last(cType)>>
\* `https://inputs.yinyang.computerpho.be/${BucketId}`
CanonicalUrl(bucketId) == <<OwnOrigin>> \o bucketId

\* what a function returns by falling off its end, and a failed lookup of a
\* header: both are falsy
Undefined == <<>>

(* ------------------------------ state --------------------------------- *)

VARIABLES
    pc,         \* where each submission's handler stands
    body,       \* the request body: the source URL as submitted
    ret,        \* what fetchAndPersistInput returned (Undefined until it does)
    cType,      \* fetchAndPersistInput's local cType
    putOk,      \* whether the blob put gave a truthy etag and size
    retries,    \* imageAnalysisAndPrompts' local retries
    response,   \* its local response
    estr,       \* its local estr
    responseObj,\* its local responseObj
    httpResp,   \* the HTTP response each submission's client got
    Inputs,     \* the rows of the D1 table Inputs, in insertion order
    bucket,     \* the keys held by INPUT_IMAGES_BUCKET
    ledger,     \* RequestsKVStore
    queue,      \* the messages sent to GENIMG_REQ_QUEUE
    pollResp,   \* the last answer of the polling handler
    calls,      \* (history) vision invocations made, per submission
    effects,    \* (history) collaborators each submission has called
    ledgerWrites \* (history) puts made to each ledger key

vars == <<pc, body, ret, cType, putOk, retries, response, estr, responseObj,
          httpResp, Inputs, bucket, ledger, queue, pollResp, calls, effects,
          ledgerWrites>>

resolveVars == <<ret, cType, putOk>>
pipeVars == <<retries, response, estr, responseObj>>
storeVars == <<Inputs, bucket, ledger, queue, ledgerWrites>>

NoResponse == [ok |-> FALSE, content |-> <<>>]
NoEstr == [err |-> 0, remain |-> 0]
NoObj == [requestId |-> EmptyPath]
NoHttp == [status |-> 0, body |-> [null |-> TRUE]]
NoRecord == [status |-> "absent"]
NullBody == [null |-> TRUE]
\* the record of request 0, as the queue's consumer left it
StoredRecord == [status |-> "complete", requestId |-> 0]

Init ==
    /\ pc = [s \in Subs |-> "idle"]
    /\ body = [s \in Subs |-> Undefined]
    /\ ret = [s \in Subs |-> Undefined]
    /\ cType = [s \in Subs |-> NoCType]
    /\ putOk = [s \in Subs |-> FALSE]
    /\ retries = [s \in Subs |-> 0]
    /\ response = [s \in Subs |-> NoResponse]
    /\ estr = [s \in Subs |-> NoEstr]
    /\ responseObj = [s \in Subs |-> NoObj]
    /\ httpResp = [s \in Subs |-> NoHttp]
    /\ Inputs = <<[SourceUrl |-> SeenUrl, ContentType |-> <<"image", "png">>,
                   BucketId |-> <<"old", "png">>]>>
    /\ bucket = {<<"old", "png">>}
    /\ ledger = [i \in Ids |-> IF i = 0 THEN StoredRecord ELSE NoRecord]
    /\ queue = <<>>
    /\ pollResp = [path |-> EmptyPath, phase |-> "no poll"] @@ NoHttp
    /\ calls = [s \in Subs |-> 0]
    /\ effects = [s \in Subs |-> {}]
    /\ ledgerWrites = [i \in Ids |-> 0]

(* --------------------- the router's error handler --------------------- *)

\* router.handle(request).then(html).catch(ourError): an exception that
\* leaves a handler ends the request with itty-router's error response
RouterError == [status |-> 500, body |-> [error |-> "Internal Server Error"]]

Throw(s) ==
    /\ pc' = [pc EXCEPT ![s] = "done"]
    /\ httpResp' = [httpResp EXCEPT ![s] = RouterError]

\* the locals of imageAnalysisAndPrompts end with the call
Forget(s) ==
    /\ retries' = [retries EXCEPT ![s] = 0]
    /\ response' = [response EXCEPT ![s] = NoResponse]
    /\ estr' = [estr EXCEPT ![s] = NoEstr]
    /\ responseObj' = [responseObj EXCEPT ![s] = NoObj]

(* ------------------------- postReqHandler ----------------------------- *)

\* lines 247-250: the request arrives, its body is read and input resolution
\* is started.  Submissions are numbered in their order of arrival.
postReqHandler(s, url) ==
    /\ pc[s] = "idle"
    /\ \A t \in Subs : t < s => pc[t] # "idle"
    /\ pc' = [pc EXCEPT ![s] = "resolve"]
    /\ body' = [body EXCEPT ![s] = url]
    /\ UNCHANGED <<resolveVars, pipeVars, httpResp, storeVars, pollResp,
                   calls, effects>>

\* lines 250-255: fetchAndPersistInput has returned r; a falsy r falls back
\* to the body
OurUrl(s) == IF ret[s] = Undefined THEN body[s] ELSE ret[s]

\* fetchAndPersistInput returns r to postReqHandler, which goes on to call
\* imageAnalysisAndPrompts
Return(s, r) ==
    /\ ret' = [ret EXCEPT ![s] = r]
    /\ cType' = [cType EXCEPT ![s] = NoCType]
    /\ putOk' = [putOk EXCEPT ![s] = FALSE]
    /\ pc' = [pc EXCEPT ![s] = "analyze"]
    /\ UNCHANGED httpResp

(* ----------------------- fetchAndPersistInput ------------------------- *)

\* a faulty variant: the whole URL is compared with the origin
IsOwnWholeUrl(url) == url = <<OwnOrigin>>

\* `new URL(imageUrl).origin === 'https://inputs.yinyang.computerpho.be'`
IsOwn(url) == Origin(url) = OwnOrigin

\* 'select * from Inputs where SourceUrl = ?'
SelectBySourceUrl(rows, url) == SelectSeq(rows, LAMBDA r : r.SourceUrl = url)

Did(s, what) == effects' = [effects EXCEPT ![s] = @ \cup {what}]

\* lines 179-195: the own-origin shortcut, then the cache lookup
fetchAndPersistInput(s) ==
    /\ pc[s] = "resolve"
    /\ UNCHANGED <<body, pipeVars, storeVars, pollResp, calls>>
    /\ IF body[s] = InvalidUrl
       THEN Throw(s) /\ UNCHANGED <<resolveVars, effects>>
       ELSE IF IsOwn(body[s])
       THEN Return(s, body[s]) /\ UNCHANGED effects
       ELSE /\ Did(s, "lookup")
            /\ \E checkRes \in {"success", "failure", "throws"} :
                 CASE checkRes = "throws" ->
                        Throw(s) /\ UNCHANGED resolveVars
                   [] checkRes = "failure" ->
                        Return(s, Undefined)
                   [] OTHER ->
                        LET results == SelectBySourceUrl(Inputs, body[s]) IN
                        IF Len(results) > 0
                        THEN Return(s, CanonicalUrl(results[1].BucketId))
                        ELSE /\ pc' = [pc EXCEPT ![s] = "fetch"]
                             /\ UNCHANGED <<resolveVars, httpResp>>

\* what fetch(imageUrl) can do: reject, or resolve to a response with or
\* without ok and with or without a content-type header
FetchOutcomes ==
    {[kind |-> "throws", ctype |-> NoCType], [kind |-> "not ok", ctype |-> NoCType],
     [kind |-> "ok", ctype |-> NoCType]}
    \cup {[kind |-> "ok", ctype |-> ct] : ct \in ContentTypes}

\* lines 197-210: fetch the source and read its content type
fetchSource(s) ==
    /\ pc[s] = "fetch"
    /\ UNCHANGED <<body, pipeVars, storeVars, pollResp, calls>>
    /\ Did(s, "fetch")
    /\ \E resp \in FetchOutcomes :
         CASE resp.kind = "throws" -> Throw(s) /\ UNCHANGED resolveVars
           [] resp.kind = "not ok" -> Return(s, Undefined)
           [] resp.ctype = NoCType -> Return(s, Undefined)
           [] OTHER ->
                /\ cType' = [cType EXCEPT ![s] = resp.ctype]
                /\ pc' = [pc EXCEPT ![s] = "put"]
                /\ UNCHANGED <<ret, putOk, httpResp>>

\* line 211: INPUT_IMAGES_BUCKET.put(bucketId, blob).  The put stores the
\* blob and gives a truthy etag and size, or stores nothing and gives a
\* falsy etag, or rejects.
putBlob(s) ==
    /\ pc[s] = "put"
    /\ UNCHANGED <<body, ret, cType, pipeVars, Inputs, ledger, queue,
                   ledgerWrites, pollResp, calls>>
    /\ Did(s, "put")
    /\ \E put \in {"stored", "no etag", "throws"} :
         CASE put = "throws" -> Throw(s) /\ UNCHANGED <<putOk, bucket>>
           [] put = "no etag" ->
                /\ putOk' = [putOk EXCEPT ![s] = FALSE]
                /\ pc' = [pc EXCEPT ![s] = "insert"]
                /\ UNCHANGED <<bucket, httpResp>>
           [] OTHER ->
                /\ putOk' = [putOk EXCEPT ![s] = TRUE]
                /\ bucket' = bucket \cup {BucketIdFor(s, cType[s])}
                /\ pc' = [pc EXCEPT ![s] = "insert"]
                /\ UNCHANGED httpResp

\* 'insert into Inputs values (?, ?, ?)' bound to (imageUrl, cType, bucketId)
InsertRow(rows, url, ct, bucketId) ==
    Append(rows, [SourceUrl |-> url, ContentType |-> ct, BucketId |-> bucketId])

\* line 214: `!insertRes.success || !etag || !size`
BadPersist(insertOk, etagAndSize) == ~insertOk \/ ~etagAndSize

\* lines 212-220: record the mapping, whatever the put gave, then judge both
insertMapping(s) ==
    /\ pc[s] = "insert"
    /\ UNCHANGED <<body, pipeVars, bucket, ledger, queue, ledgerWrites,
                   pollResp, calls>>
    /\ Did(s, "insert")
    /\ \E insertRes \in {"success", "failure", "throws"} :
         CASE insertRes = "throws" ->
                Throw(s) /\ UNCHANGED <<resolveVars, Inputs>>
           [] insertRes = "failure" ->
                /\ Return(s, IF BadPersist(FALSE, putOk[s]) THEN Undefined
                             ELSE CanonicalUrl(BucketIdFor(s, cType[s])))
                /\ UNCHANGED Inputs
           [] OTHER ->
                /\ Inputs' = InsertRow(Inputs, body[s], cType[s],
                                       BucketIdFor(s, cType[s]))
                /\ Return(s, IF BadPersist(TRUE, putOk[s]) THEN Undefined
                             ELSE CanonicalUrl(BucketIdFor(s, cType[s])))

(* ------------------------------ text ---------------------------------- *)
\* A string is the tuple of its characters.

Letters ==
    {"a", "b", "c", "d", "e", "f", "g", "h", "i", "j", "k", "l", "m", "n",
     "o", "p", "q", "r", "s", "t", "u", "v", "w", "x", "y", "z", "T"}
Digits == {"0", "1", "2", "3", "4", "5", "6", "7", "8", "9"}
\* what /[\w\d\.,\- ]/ matches
Kept == Letters \cup Digits \cup {"_", ".", ",", "-", " "}

\* .replaceAll(/\n/g, ' ')
NewlinesToSpaces(str) ==
    [i \in 1..Len(str) |-> IF str[i] = "\n" THEN " " ELSE str[i]]

\* .replaceAll(/[^\w\d\.,\- ]/g, '')
StripOthers(str) == SelectSeq(str, LAMBDA c : c \in Kept)

\* the places where the separator ". " starts
Breaks(str) == {i \in 1..(Len(str) - 1) : str[i] = "." /\ str[i + 1] = " "}

Least(S) == CHOOSE i \in S : \A j \in S : i <= j

\* .split('. ')
RECURSIVE Split(_)
Split(str) ==
    IF Breaks(str) = {} THEN <<str>>
    ELSE LET i == Least(Breaks(str)) IN
         <<SubSeq(str, 1, i - 1)>> \o Split(SubSeq(str, i + 2, Len(str)))

\* .join('. ')
RECURSIVE Join(_)
Join(strs) ==
    IF Len(strs) = 0 THEN <<>>
    ELSE IF Len(strs) = 1 THEN strs[1]
    ELSE strs[1] \o <<".", " ">> \o Join(Tail(strs))

\* a faulty variant: the period that ends the narrative is dropped
SegmentTrimmed(content) ==
    LET parts == Split(StripOthers(NewlinesToSpaces(content)))
    IN  [parts EXCEPT ![Len(parts)] =
            IF Len(@) > 0 /\ Last(@) = "." THEN SubSeq(@, 1, Len(@) - 1) ELSE @]

\* lines 109-112: the sentence fragments of a narrative
Segment(content) == Split(StripOthers(NewlinesToSpaces(content)))

(* ------------------------------ _text --------------------------------- *)
\* Scores, the threshold and its modifier are in hundredths.

\* the value of the configuration key goodThreshold
GoodThreshold == 10

\* the header X-Yinyang-Threshold-Mod after Number.parseFloat: absent
\* (undefined), a number, or NaN when the text is no number
NoMod == [defined |-> FALSE, number |-> FALSE, value |-> 0]
Mod(v) == [defined |-> TRUE, number |-> TRUE, value |-> v]
NotANumber == [defined |-> TRUE, number |-> FALSE, value |-> 0]
ThresholdMods == {NoMod, Mod(800)}

\* `if (thresholdMod)`: undefined, NaN and 0 are falsy
Truthy(mod) == mod.defined /\ mod.number /\ mod.value # 0

\* a faulty variant: the modifier is added undivided
EffectiveThresholdUndivided(threshold, mod) ==
    IF Truthy(mod) THEN threshold + mod.value ELSE threshold

\* lines 17-19
EffectiveThreshold(threshold, mod) ==
    IF Truthy(mod) THEN threshold + (mod.value \div 10) ELSE threshold

\* what ai.run can answer: a list of labelled scores, or nothing (it rejects)
Score(n, p) == <<[label |-> "NEGATIVE", score |-> n], [label |-> "POSITIVE", score |-> p]>>
Rejects == <<>>
ClassifierAnswers ==
    {Score(5, 90), Score(60, 30), Rejects, <<[label |-> "POSITIVE", score |-> 90]>>}

\* response.find(({ label }) => label === l)
Find(resp, l) == SelectSeq(resp, LAMBDA x : x.label = l)

\* _text throws when ai.run rejects, and when a label is missing (.score of
\* undefined)
TextThrows(resp) ==
    resp = Rejects \/ Find(resp, "NEGATIVE") = <<>> \/ Find(resp, "POSITIVE") = <<>>

\* lines 21-27
Sentiment(resp, threshold, mod) ==
    LET negative == Find(resp, "NEGATIVE")[1].score
        positive == Find(resp, "POSITIVE")[1].score
    IN  [negative |-> negative, positive |-> positive,
         good |-> positive - negative > EffectiveThreshold(threshold, mod)]

(* ----------------------- _promptFromSentences ------------------------- *)

\* a faulty variant: the sentences are joined without being filtered
PromptFromSentencesAll(sentences, wantGood) ==
    Join([i \in 1..Len(sentences) |-> sentences[i].sentence])

\* lines 30-35
PromptFromSentences(sentences, wantGood) ==
    LET picked == SelectSeq(sentences, LAMBDA x : x.sentiment.good = wantGood)
    IN  Join([i \in 1..Len(picked) |-> picked[i].sentence])

(* --------------------- imageAnalysisAndPrompts ------------------------ *)

\* the header X-Yinyang-OpenAI-Key: absent (null), a caller's own key, or a
\* name that USE_BUILTIN_OPENAI_KEY lists
NoKey == ""
HeaderKeys == {NoKey, "sk-user", "friend"}
AllowBuiltIns == {"friend"}
EnvOpenAIKey == "sk-builtin"

\* lines 38-43
OpenAIKey(header) == IF header \in AllowBuiltIns THEN EnvOpenAIKey ELSE header

Unauthorized == [status |-> 401, body |-> NullBody]
EmptyModelOutput == [status |-> 418, body |-> NullBody]

Finish(s, r) ==
    /\ pc' = [pc EXCEPT ![s] = "done"]
    /\ httpResp' = [httpResp EXCEPT ![s] = r]
    /\ Forget(s)

\* lines 38-58: the credential check, the configuration reads, `retries = 3`.
\* The header is drawn here, where the handler first reads it.
imageAnalysisAndPrompts(s) ==
    /\ pc[s] = "analyze"
    /\ UNCHANGED <<body, resolveVars, storeVars, pollResp, calls, effects>>
    /\ \E header \in HeaderKeys :
         IF OpenAIKey(header) = NoKey
         THEN Finish(s, Unauthorized)
         ELSE /\ retries' = [retries EXCEPT ![s] = MaxRetries]
              /\ pc' = [pc EXCEPT ![s] = "vision"]
              /\ UNCHANGED <<response, estr, responseObj, httpResp>>

\* what the vision model can answer: a narrative (perhaps empty), or an error.
\* The errors of one submission are told apart by numbering them as raised.
Contents == {<<>>, <<"a", "!", ".", "\n", "b", ".">>}
ErrorRaised(left) == MaxRetries - left

\* a faulty variant: the message is built before `retries--`
FailureMessageEarly(e, left) == [err |-> e, remain |-> left + 1]

\* line 84: `OpenAI failed: ${e}${retries > 0 ? ` (${retries} retries remain)` : ''}`
FailureMessage(e, left) == [err |-> e, remain |-> left]

\* line 60: `while (retries > 0)`
LoopAgain(left, resp) == left > 0

Counted(n) == IF n < MaxVisionCalls THEN n + 1 ELSE n

\* a faulty variant: an attempt that fails discards the narrative held
AfterRetriesForgetful(s, resp, msg) == Finish(s, [status |-> 500, body |-> msg])

\* lines 89-105, once the loop is left
AfterRetries(s, resp, msg) ==
    IF ~resp.ok
    THEN Finish(s, [status |-> 500, body |-> msg])
    ELSE IF resp.content = <<>>
    THEN Finish(s, EmptyModelOutput)
    ELSE /\ pc' = [pc EXCEPT ![s] = "score"]
         /\ retries' = [retries EXCEPT ![s] = 0]
         /\ response' = [response EXCEPT ![s] = resp]
         /\ estr' = [estr EXCEPT ![s] = msg]
         /\ UNCHANGED <<responseObj, httpResp>>

\* lines 60-87: one turn of the retry loop, and what follows the loop when
\* this turn ends it
visionAttempt(s) ==
    /\ pc[s] = "vision"
    /\ UNCHANGED <<body, resolveVars, storeVars, pollResp>>
    /\ Did(s, "vision")
    /\ calls' = [calls EXCEPT ![s] = Counted(@)]
    /\ \/ \E content \in Contents :
            LET resp == [ok |-> TRUE, content |-> content] IN
            IF LoopAgain(retries[s], resp)
            THEN /\ response' = [response EXCEPT ![s] = resp]
                 /\ UNCHANGED <<pc, retries, estr, responseObj, httpResp>>
            ELSE AfterRetries(s, resp, estr[s])
       \/ LET left == retries[s] - 1
              msg == FailureMessage(ErrorRaised(left), left)
          IN  IF LoopAgain(left, response[s])
              THEN /\ retries' = [retries EXCEPT ![s] = left]
                   /\ estr' = [estr EXCEPT ![s] = msg]
                   /\ UNCHANGED <<pc, response, responseObj, httpResp>>
              ELSE AfterRetries(s, response[s], msg)

\* lines 143-162, without the clock and the provenance fields
ResponseObj(s, url, originalUrl, mod, content, sentences) ==
    [input |-> [url |-> url, originalUrl |-> originalUrl,
                threshold |-> GoodThreshold, thresholdMod |-> mod],
     requestId |-> s,
     response |-> content,
     sentences |-> sentences,
     results |-> [good |-> [prompt |-> PromptFromSentences(sentences, TRUE)],
                  bad |-> [prompt |-> PromptFromSentences(sentences, FALSE)]]]

\* lines 119-121: `Sentiment failed: ${e}`
ScoringFailed == [status |-> 500, body |-> [sentiment |-> "failed"]]

\* a faulty variant: the fragments whose scoring throws are left out
\* (Promise.allSettled)
ScoreAllSettled(fragments, answers, mod) ==
    LET kept == SelectSeq([i \in 1..Len(fragments) |-> i],
                          LAMBDA i : ~TextThrows(answers[i]))
    IN  [rejected |-> FALSE,
         sentences |->
            [k \in 1..Len(kept) |->
                [sentence |-> fragments[kept[k]],
                 sentiment |-> Sentiment(answers[kept[k]], GoodThreshold, mod)]]]

\* lines 106-122: every fragment is handed to _text at once; Promise.all
\* rejects if any of them throws
ScoreAll(fragments, answers, mod) ==
    IF \E i \in 1..Len(fragments) : TextThrows(answers[i])
    THEN [rejected |-> TRUE, sentences |-> <<>>]
    ELSE [rejected |-> FALSE,
          sentences |->
             [i \in 1..Len(fragments) |->
                 [sentence |-> fragments[i],
                  sentiment |-> Sentiment(answers[i], GoodThreshold, mod)]]]

\* a faulty variant: the message is queued without the record being written
AfterScoringUnrecorded == "queue"

\* lines 164-172: what follows the scoring is the write to the ledger
AfterScoring == "ledger"

\* lines 99-162, for a request whose threshold header is one of mods and whose
\* classifier answers with one of answerSet.  The header is drawn here, where
\* the handler reads it.
scoreSentencesFrom(s, mods, answerSet) ==
    /\ pc[s] = "score"
    /\ UNCHANGED <<body, resolveVars, storeVars, pollResp, calls>>
    /\ Did(s, "classifier")
    /\ LET fragments == Segment(response[s].content) IN
       \E mod \in mods :
       \E answers \in [1..Len(fragments) -> answerSet] :
         LET scored == ScoreAll(fragments, answers, mod) IN
         IF scored.rejected
         THEN Finish(s, ScoringFailed)
         ELSE /\ responseObj' =
                    [responseObj EXCEPT
                       ![s] = ResponseObj(s, OurUrl(s), body[s], mod,
                                          response[s].content, scored.sentences)]
              /\ pc' = [pc EXCEPT ![s] = AfterScoring]
              /\ UNCHANGED <<retries, response, estr, httpResp>>

scoreSentences(s) == scoreSentencesFrom(s, ThresholdMods, ClassifierAnswers)

\* JSON.stringify: a member that is undefined is left out, and NaN is
\* written as null (a number is the tuple of its value, null the empty tuple)
Json(obj) ==
    IF obj.input.thresholdMod.defined
    THEN [obj EXCEPT !.input.thresholdMod =
                        IF @.number THEN <<@.value>> ELSE <<>>]
    ELSE [obj EXCEPT !.input = [url |-> @.url, originalUrl |-> @.originalUrl,
                                threshold |-> @.threshold]]

\* a faulty variant: the record is written as complete
LedgerRecordComplete(obj) == [status |-> "complete"] @@ Json(obj)

\* lines 166-169: `{ ...responseObj, status: 'pending' }`
LedgerRecord(obj) == [status |-> "pending"] @@ Json(obj)

\* lines 164-170: RequestsKVStore.put
putRecord(s) ==
    /\ pc[s] = "ledger"
    /\ UNCHANGED <<body, resolveVars, Inputs, bucket, queue, pollResp, calls>>
    /\ Did(s, "ledger")
    /\ \/ /\ ledger' = [ledger EXCEPT ![s] = LedgerRecord(responseObj[s])]
          /\ ledgerWrites' = [ledgerWrites EXCEPT ![s] = @ + 1]
          /\ pc' = [pc EXCEPT ![s] = "queue"]
          /\ UNCHANGED <<pipeVars, httpResp>>
       \/ Throw(s) /\ Forget(s) /\ UNCHANGED <<ledger, ledgerWrites>>

\* a faulty variant: a rejected send is caught and the analysis is answered
AfterSendSwallowed(s, sent) ==
    /\ queue' = IF sent THEN Append(queue, [requestId |-> s]) ELSE queue
    /\ Finish(s, [status |-> 200, body |-> Json(responseObj[s])])

\* a faulty variant: the message is sent a second time
AfterSendTwice(s, sent) ==
    IF sent
    THEN /\ queue' = queue \o <<[requestId |-> s], [requestId |-> s]>>
         /\ Finish(s, [status |-> 200, body |-> Json(responseObj[s])])
    ELSE Throw(s) /\ Forget(s) /\ UNCHANGED queue

\* lines 172-175: the awaited send resolves and the analysis is answered, or
\* it rejects and the exception leaves the handler
AfterSend(s, sent) ==
    IF sent
    THEN /\ queue' = Append(queue, [requestId |-> s])
         /\ Finish(s, [status |-> 200, body |-> Json(responseObj[s])])
    ELSE Throw(s) /\ Forget(s) /\ UNCHANGED queue

\* lines 172-175: GENIMG_REQ_QUEUE.send, then the answer to the client
sendToQueue(s) ==
    /\ pc[s] = "queue"
    /\ UNCHANGED <<body, resolveVars, Inputs, bucket, ledger, ledgerWrites,
                   pollResp, calls>>
    /\ Did(s, "queue")
    /\ \E sent \in BOOLEAN : AfterSend(s, sent)

(* -------------------------- getReqHandler ----------------------------- *)

\* JSON.parse(await env.RequestsKVStore.get(checkReqId))
StoredObject(kv, id) == kv[id]

\* a faulty variant: a missing record is answered like a missing identifier
PollAnswerStrict(kv, path) ==
    IF path = EmptyPath \/ StoredObject(kv, path) = NoRecord
    THEN [status |-> 404, body |-> NullBody]
    ELSE IF StoredObject(kv, path).status = "pending"
    THEN [status |-> 202, body |-> NullBody]
    ELSE [status |-> 200, body |-> StoredObject(kv, path)]

\* lines 231-243
PollAnswer(kv, path) ==
    IF path = EmptyPath
    THEN [status |-> 404, body |-> NullBody]
    ELSE LET reqObj == StoredObject(kv, path) IN
         IF reqObj = NoRecord \/ reqObj.status = "pending"
         THEN [status |-> 202, body |-> NullBody]
         ELSE [status |-> 200, body |-> reqObj]

\* (history) what has become of the identifier a poll names
Phase(path) ==
    CASE path = EmptyPath -> "no identifier"
      [] path \notin Subs -> "completed by the consumer"
      [] pc[path] = "idle" -> "never submitted"
      [] ledgerWrites[path] > 0 -> "written by the pipeline"
      [] pc[path] = "done" -> "failed"
      [] OTHER -> "in flight"

getReqHandler(path) ==
    /\ pollResp' = [path |-> path, phase |-> Phase(path)] @@ PollAnswer(ledger, path)
    /\ UNCHANGED <<pc, body, resolveVars, pipeVars, httpResp, storeVars,
                   calls, effects>>

(* --------------------------- specification ---------------------------- *)

Pipeline(s) ==
    \/ fetchAndPersistInput(s)
    \/ fetchSource(s)
    \/ putBlob(s)
    \/ insertMapping(s)
    \/ imageAnalysisAndPrompts(s)
    \/ visionAttempt(s)
    \/ scoreSentences(s)
    \/ putRecord(s)
    \/ sendToQueue(s)

\* concurrent submissions
Next ==
    \/ \E s \in Subs, url \in Bodies : postReqHandler(s, url)
    \/ \E s \in Subs : Pipeline(s)

Spec == Init /\ [][Next]_vars

\* one submission and the clients that poll
First == CHOOSE s \in Subs : \A t \in Subs : s <= t
PollNext ==
    \/ \E url \in Bodies : postReqHandler(First, url)
    \/ Pipeline(First)
    \/ \E path \in Paths : getReqHandler(path)

PollSpec == Init /\ [][PollNext]_vars

\* one submission whose handler is always scheduled again: each await
\* resolves or rejects
FairSpec == Init /\ [][PollNext]_vars /\ WF_vars(Pipeline(First))

(* --------------------- scoring and aggregation ------------------------ *)
\* The handler from the scoring on, for one request that has left the retry
\* loop with a narrative, over more narratives, headers and scores.

\* "The cat is happy. The room is messy."
CatNarrative ==
    <<"T", "h", "e", " ", "c", "a", "t", " ", "i", "s", " ", "h", "a", "p",
      "p", "y", ".", " ", "T", "h", "e", " ", "r", "o", "o", "m", " ", "i",
      "s", " ", "m", "e", "s", "s", "y", ".">>

Narratives ==
    {CatNarrative,
     <<"a", ".", " ", "b", ".", " ", "c">>,
     <<"a", "!", ".", "\n", "b", ".">>,
     <<"a", "b">>}
HeaderMods == {NoMod, Mod(0), Mod(300), Mod(800), Mod(0 - 500), NotANumber}
Answers == {Score(5, 90), Score(60, 30), Score(40, 50), Rejects}

Only(v, d) == [s \in Subs |-> IF s = First THEN v ELSE d]

\* the first request was for SeenUrl, found in the cache; its vision call
\* answered with a narrative, and then failed until no retries were left
ScoringInit ==
    /\ pc = Only("score", "idle")
    /\ body = Only(SeenUrl, Undefined)
    /\ ret = Only(CanonicalUrl(<<"old", "png">>), Undefined)
    /\ cType = [s \in Subs |-> NoCType]
    /\ putOk = [s \in Subs |-> FALSE]
    /\ retries = [s \in Subs |-> 0]
    /\ \E content \in Narratives :
         response = Only([ok |-> TRUE, content |-> content], NoResponse)
    /\ estr = Only(FailureMessage(ErrorRaised(0), 0), NoEstr)
    /\ responseObj = [s \in Subs |-> NoObj]
    /\ httpResp = [s \in Subs |-> NoHttp]
    /\ Inputs = <<[SourceUrl |-> SeenUrl, ContentType |-> <<"image", "png">>,
                   BucketId |-> <<"old", "png">>]>>
    /\ bucket = {<<"old", "png">>}
    /\ ledger = [i \in Ids |-> IF i = 0 THEN StoredRecord ELSE NoRecord]
    /\ queue = <<>>
    /\ pollResp = [path |-> EmptyPath, phase |-> "no poll"] @@ NoHttp
    /\ calls = Only(MaxVisionCalls, 0)
    /\ effects = Only({"lookup", "vision"}, {})
    /\ ledgerWrites = [i \in Ids |-> 0]

ScoringNext ==
    \/ scoreSentencesFrom(First, HeaderMods, Answers)
    \/ putRecord(First)
    \/ sendToQueue(First)

ScoringSpec == ScoringInit /\ [][ScoringNext]_vars

(* ------------------------------ claims -------------------------------- *)

ResolveEffects == {"lookup", "fetch", "put", "insert"}
Resolving == {"idle", "resolve", "fetch", "put", "insert"}

C2_ThreeCases ==
    /\ pollResp.phase = "never submitted" => pollResp.status = 404
    /\ pollResp.phase = "in flight" => pollResp.status = 202
    /\ pollResp.phase = "written by the pipeline" =>
          pollResp.status = 200 /\ pollResp.body = ledger[pollResp.path]

\* C2, amended: only a poll without identifier answers not found; a poll of
\* an identifier never submitted, in flight, failed or written by the
\* pipeline answers pending with no content; a poll of a record whose stored
\* status is not pending answers with that record, the same at every poll
C2_PendingUntilConsumed ==
    /\ pollResp.phase = "no identifier" =>
          pollResp.status = 404 /\ pollResp.body = NullBody
    /\ pollResp.phase \in {"never submitted", "in flight", "failed",
                           "written by the pipeline"} =>
          pollResp.status = 202 /\ pollResp.body = NullBody
    /\ pollResp.phase = "completed by the consumer" =>
          pollResp.status = 200 /\ pollResp.body = StoredRecord

C2_Witness ==
    pollResp.phase = "written by the pipeline" /\ pollResp.status = 202

\* C3: no submission invokes the vision model more than 3 times, and none
\* is about to invoke it again once an attempt has succeeded
C3_AtMostThreeSequential ==
    \A s \in Subs :
        /\ calls[s] <= MaxRetries
        /\ pc[s] = "vision" => ~response[s].ok

\* C4: a submission that has arrived is eventually answered
C4_EventuallyAnswered == (pc[First] # "idle") ~> (pc[First] = "done")

\* three vision attempts were made and the loop was left without a response
AllAttemptsFailed(s) == pc[s] = "done" /\ calls[s] = MaxRetries

C6_UnauthorizedNoEffect ==
    \A s \in Subs :
        httpResp[s] = Unauthorized =>
            /\ effects[s] \cap {"fetch", "put", "insert", "vision",
                                "classifier", "ledger", "queue"} = {}
            /\ ledgerWrites[s] = 0

\* C7: the cache holds at most one entry for a source URL
C7_OneEntryPerUrl ==
    \A i, j \in 1..Len(Inputs) :
        Inputs[i].SourceUrl = Inputs[j].SourceUrl => i = j

\* C8: of two resolutions of one source URL of which the earlier returned a
\* reference, the later has neither fetched, put a blob nor inserted a row,
\* and the reference it returns, if its lookup gave one, is the same
C8_SecondResolutionIdle ==
    \A s, t \in Subs :
        (/\ s < t
         /\ pc[s] \notin Resolving /\ pc[t] \notin Resolving
         /\ body[s] = body[t]
         /\ ret[s] # Undefined) =>
            /\ ret[t] # Undefined => ret[t] = ret[s]
            /\ effects[t] \cap {"fetch", "put", "insert"} = {}

\* C9: a submission whose input resolution got as far as the cache lookup
\* reaches the pipeline, whatever failed in the resolution
C9_ResolutionNeverAborts ==
    \A s \in Subs :
        ("lookup" \in effects[s] /\ pc[s] = "done") =>
            (httpResp[s] = Unauthorized \/ "vision" \in effects[s])

\* C10: a source URL of the system's own origin is returned as it is, and
\* its resolution calls neither the cache, the network nor the blob store
C10_OwnUrlBypasses ==
    \A s \in Subs :
        (pc[s] \notin {"idle", "resolve"} /\ body[s] = OwnUrl) =>
            /\ ret[s] = OwnUrl
            /\ OurUrl(s) = OwnUrl
            /\ effects[s] \cap ResolveEffects = {}

C10_Witness ==
    \E s \in Subs : body[s] = OwnUrl /\ pc[s] = "analyze"

\* the messages in the queue that carry the identifier of submission s
MessagesFor(s) == Cardinality({i \in DOMAIN queue : queue[i].requestId = s})

\* the records the submissions have written to the ledger
Written == {s \in Subs : ledger[s] # NoRecord}

\* C11: a submission that ended in ScoringFailed has written no record and
\* sent no message, and every record in the ledger holds a scored sentence for
\* each fragment of its narrative, never a subset of them
C11_NoPartialResult ==
    \A s \in Subs :
        /\ httpResp[s] = ScoringFailed =>
              /\ ledger[s] = NoRecord
              /\ ledgerWrites[s] = 0
              /\ MessagesFor(s) = 0
        /\ s \in Written =>
              Len(ledger[s].sentences) = Len(Segment(ledger[s].response))

\* a submission whose scoring failed while another one's record was written
C11_Witness ==
    \E s, t \in Subs :
        /\ httpResp[s] = ScoringFailed
        /\ "classifier" \in effects[s]
        /\ t \in Written
        /\ Len(ledger[t].sentences) > 1

\* the send to the queue was tried and left no message
QueueSendFailed(s) ==
    pc[s] = "done" /\ "queue" \in effects[s] /\ MessagesFor(s) = 0

Positions(rec, flag) ==
    {i \in 1..Len(rec.sentences) : rec.sentences[i].sentiment.good = flag}

RECURSIVE Ascending(_)
Ascending(S) ==
    IF S = {} THEN <<>> ELSE <<Least(S)>> \o Ascending(S \ {Least(S)})

\* the sentences at the given positions, in their order in the narrative,
\* joined by ". "
JoinedAt(rec, S) ==
    LET at == Ascending(S)
    IN  Join([k \in 1..Len(at) |-> rec.sentences[at[k]].sentence])

\* C13: in every record written, the good prompt is the ". "-join of exactly
\* the good sentences and the bad prompt that of exactly the others, each in
\* the order of the narrative, so that every sentence is in exactly one prompt
C13_PromptsPartitionSentences ==
    \A s \in Written :
        LET rec == ledger[s]
            good == Positions(rec, TRUE)
            bad == Positions(rec, FALSE)
        IN  /\ good \cap bad = {}
            /\ good \cup bad = 1..Len(rec.sentences)
            /\ rec.results.good.prompt = JoinedAt(rec, good)
            /\ rec.results.bad.prompt = JoinedAt(rec, bad)

\* a record of three sentences of which the first and the last are good
C13_Witness ==
    \E s \in Written :
        /\ Len(ledger[s].sentences) = 3
        /\ Positions(ledger[s], TRUE) = {1, 3}
        /\ ledger[s].results.good.prompt = <<"a", ".", " ", "c">>
        /\ ledger[s].results.bad.prompt = <<"b">>

\* the modifier a record was scored with, as its input member tells it: 0
\* when the member is missing or null
ModOf(input) ==
    IF "thresholdMod" \in DOMAIN input /\ input.thresholdMod # <<>>
    THEN input.thresholdMod[1]
    ELSE 0

\* C14: in every record written, each sentence is good exactly when
\* positive - negative exceeds the base threshold plus a tenth of the
\* request's modifier (0 when absent), the same for all its sentences
C14_GoodIffAboveThreshold ==
    \A s \in Written :
        LET rec == ledger[s] IN
        \A i \in 1..Len(rec.sentences) :
            LET score == rec.sentences[i].sentiment IN
            score.good =
                (10 * (score.positive - score.negative)
                    > 10 * rec.input.threshold + ModOf(rec.input))

\* a record of several sentences where the modifier makes a sentence bad
\* that the base threshold alone would make good
C14_Witness ==
    \E s \in Written :
        /\ ModOf(ledger[s].input) > 0
        /\ Len(ledger[s].sentences) > 1
        /\ \E i \in 1..Len(ledger[s].sentences) :
             LET score == ledger[s].sentences[i].sentiment IN
             /\ score.positive - score.negative > GoodThreshold
             /\ ~score.good

\* C15, as stated: a submission whose vision call answered with an empty
\* narrative ends there, as EmptyModelOutput, so it never stands in the
\* retry loop holding that answer; EmptyModelOutput is not a 500 and comes
\* without any sentence scored
C15_EmptyEndsAsEmptyModelOutput ==
    \A s \in Subs :
        /\ ~(pc[s] = "vision" /\ response[s].ok /\ response[s].content = <<>>)
        /\ httpResp[s] = EmptyModelOutput => "classifier" \notin effects[s]
        /\ httpResp[s] = EmptyModelOutput => httpResp[s].status # 500

\* the record of the narrative "The cat is happy. The room is messy." scored
\* (POS 0.9, NEG 0.05) and (POS 0.3, NEG 0.6) under the threshold 0.1
CatExample(rec) ==
    /\ rec.response = CatNarrative
    /\ rec.input.threshold = 10
    /\ "thresholdMod" \notin DOMAIN rec.input
    /\ Len(rec.sentences) = 2
    /\ rec.sentences[1].sentiment.positive = 90
    /\ rec.sentences[1].sentiment.negative = 5
    /\ rec.sentences[2].sentiment.positive = 30
    /\ rec.sentences[2].sentiment.negative = 60

\* C16, as stated: the example yields the good prompt "The cat is happy" and
\* the bad prompt "The room is messy", without the final period
C16_CatExampleTrimmed ==
    \A s \in Written :
        CatExample(ledger[s]) =>
            /\ ledger[s].results.good.prompt =
                  <<"T", "h", "e", " ", "c", "a", "t", " ", "i", "s", " ", "h", "a", "p", "p", "y">>
            /\ ledger[s].results.bad.prompt =
                  <<"T", "h", "e", " ", "r", "o", "o", "m", " ", "i", "s", " ", "m", "e", "s", "s", "y">>

\* C16, amended: the example yields the good prompt "The cat is happy" and
\* the bad prompt "The room is messy.", which keeps the final period
C16_CatExampleKeepsPeriod ==
    \A s \in Written :
        CatExample(ledger[s]) =>
            /\ ledger[s].results.good.prompt =
                  <<"T", "h", "e", " ", "c", "a", "t", " ", "i", "s", " ", "h", "a", "p", "p", "y">>
            /\ ledger[s].results.bad.prompt =
                  <<"T", "h", "e", " ", "r", "o", "o", "m", " ", "i", "s", " ", "m", "e", "s", "s", "y", ".">>

C16_Witness ==
    \E s \in Written : CatExample(ledger[s])

\* C17: a message for a submission is in the queue only when its record has
\* been written, and the client has its analysis only when the record has
\* been written and the message sent
C17_LedgerBeforeQueueBeforeAnswer ==
    \A s \in Subs :
        /\ MessagesFor(s) > 0 => ledgerWrites[s] = 1 /\ s \in Written
        /\ pc[s] = "queue" => ledgerWrites[s] = 1 /\ s \in Written
        /\ httpResp[s].status = 200 =>
              /\ ledgerWrites[s] = 1
              /\ s \in Written
              /\ MessagesFor(s) > 0
              /\ httpResp[s].body.sentences = ledger[s].sentences

\* a submission about to send its message, its record written, while
\* another one has been answered with its analysis
C17_Witness ==
    \E s, t \in Subs :
        /\ pc[s] = "queue" /\ MessagesFor(s) = 0 /\ ledgerWrites[s] = 1
        /\ httpResp[t].status = 200

\* C18, as stated: every row of the table refers to a blob that the bucket
\* holds
C18_EntriesReferToBlobs ==
    \A i \in 1..Len(Inputs) : Inputs[i].BucketId \in bucket

\* the outcome of a submission is the failure of the vision stage
ModelUnavailable(r) == r.status = 500 /\ "err" \in DOMAIN r.body

\* the submission ended in one of the four failures of the pipeline
EndedInFailure(s) ==
    \/ httpResp[s] = Unauthorized
    \/ httpResp[s] = EmptyModelOutput
    \/ httpResp[s] = ScoringFailed
    \/ ModelUnavailable(httpResp[s])

\* C19: no submission has more than one message in the queue; one that has a
\* message passed the credential check, got a narrative that is not empty,
\* scored every fragment and wrote its record; one that ended in
\* Unauthorized, ModelUnavailable, EmptyModelOutput or ScoringFailed has none
C19_MessageOnlyAfterSuccess ==
    \A s \in Subs :
        /\ MessagesFor(s) <= 1
        /\ MessagesFor(s) = 1 =>
              /\ {"vision", "classifier", "ledger", "queue"} \subseteq effects[s]
              /\ ledgerWrites[s] = 1
              /\ s \in Written
              /\ ledger[s].response # <<>>
              /\ Len(ledger[s].sentences) = Len(Segment(ledger[s].response))
              /\ ~EndedInFailure(s)
        /\ EndedInFailure(s) => MessagesFor(s) = 0

\* one submission has its message in the queue and another was refused
C19_Witness ==
    \E s, t \in Subs :
        /\ MessagesFor(s) = 1
        /\ EndedInFailure(t)
        /\ MessagesFor(t) = 0

\* the stages that follow the retry loop
AfterLoop == {"score", "ledger", "queue"}

\* C20: a submission that ended in ModelUnavailable made exactly the three
\* attempts that failed, so none succeeded; one that has left the retry loop
\* after more attempts than that, hence after a success, goes on with a
\* narrative that an attempt returned, whatever the other attempts raised
C20_SuccessNotLost ==
    \A s \in Subs :
        /\ ModelUnavailable(httpResp[s]) => calls[s] = MaxRetries
        /\ pc[s] \in AfterLoop =>
              /\ calls[s] > MaxRetries
              /\ response[s].ok
              /\ response[s].content \in Contents \ {<<>>}
        /\ s \in Written => ledger[s].response \in Contents \ {<<>>}

\* a submission in the scoring, with a narrative, whose last attempt failed
C20_Witness ==
    \E s \in Subs :
        /\ pc[s] = "score"
        /\ calls[s] > MaxRetries
        /\ estr[s] = FailureMessage(ErrorRaised(0), 0)
        /\ response[s].ok

====
